---- MODULE Spec2Model ----
(***************************************************************************)
(* Model of the Slab GraphQL client (src/src/client.ts): the query         *)
(* executor makeGraphQLRequest, the content transform (deltaToPlainText,   *)
(* createReplacementDelta), transformPost, and the getPost / updatePost    *)
(* operations running against a backing service that stores one post.      *)
(*                                                                         *)
(* A JS string is a sequence of characters.  A JSON value is a record with *)
(* a tag field t.  An error message built by a template literal is the     *)
(* sequence of its parts (Lit for text, Raw for a response body).          *)
(***************************************************************************)
EXTENDS FiniteSets, Integers, Sequences, TLC

\* ---------------------------------------------------------------- bounds
MaxTextLen == 2    \* longest text the caller passes to updatePost
MaxRunLen == 1     \* longest text run of an insert of the stored content
MaxOps == 2        \* most operations of the stored content
MaxErrors == 2     \* most entries of a response's errors list
MaxCalls == 2      \* client operations started in one behaviour
MaxEdges == 2      \* most edges or records of a search or list answer
MaxPathLen == 4    \* most path tokens of an identifier argument

\* ------------------------------------------------------------ characters
NL == "\n"
Char == {"a", NL}
EMBED == "<embed>"

TextsUpTo(n) == UNION {[1..k -> Char] : k \in 0..n}
Texts == TextsUpTo(MaxTextLen)
Runs == TextsUpTo(MaxRunLen)

\* String.prototype.endsWith
EndsWith(s, suffix) ==
  /\ Len(s) >= Len(suffix)
  /\ SubSeq(s, Len(s) - Len(suffix) + 1, Len(s)) = suffix

\* ------------------------------------------------- content of a post
\* One Quill operation of a stored document: a text insert (with or
\* without attributes) or an embed (insert is an object).
TextOp(s) == [kind |-> "text", insert |-> s]
EmbedOp == [kind |-> "embed", insert |-> <<>>]
OpSeqs == UNION {[1..k -> ({TextOp(s) : s \in Runs} \cup {EmbedOp})] : k \in 0..MaxOps}

\* The JSON value of a post's content field: an operation array, a plain
\* string, or null.
ArrayContent(ops) == [form |-> "array", ops |-> ops, str |-> <<>>]
StringContent(s) == [form |-> "string", ops |-> <<>>, str |-> s]
NullContent == [form |-> "null", ops |-> <<>>, str |-> <<>>]
Contents ==
  {ArrayContent(o) : o \in OpSeqs} \cup {StringContent(s) : s \in Runs}
    \cup {NullContent}

RECURSIVE JoinStrings(_)
\* Array.prototype.join("") over an array of strings
JoinStrings(ss) ==
  IF ss = <<>> THEN <<>> ELSE Head(ss) \o JoinStrings(Tail(ss))

deltaToPlainText(delta) ==
  IF delta.form # "array" THEN <<>>
  ELSE JoinStrings([i \in 1..Len(delta.ops) |->
         IF delta.ops[i].kind = "text" THEN delta.ops[i].insert ELSE <<>>])

RECURSIVE Reduce(_, _)
\* currentContent.reduce(..., sum): text length of a string insert, 1 for
\* anything else
Reduce(ops, sum) ==
  IF ops = <<>> THEN sum
  ELSE Reduce(Tail(ops),
              IF Head(ops).kind = "text" THEN sum + Len(Head(ops).insert)
              ELSE sum + 1)

DeleteOp(n) == [op |-> "delete", n |-> n, text |-> <<>>]
InsertOp(s) == [op |-> "insert", n |-> 0, text |-> s]

createReplacementDelta_OpCount(currentContent, newText) ==
  LET currentLength ==
        IF currentContent.form = "array" THEN Len(currentContent.ops) ELSE 0
      normalizedText ==
        IF EndsWith(newText, <<NL, NL>>) THEN newText
        ELSE newText \o <<NL, NL>>
  IN [ops |-> (IF currentLength > 0 THEN <<DeleteOp(currentLength)>> ELSE <<>>)
                \o <<InsertOp(normalizedText)>>]

createReplacementDelta_AlwaysDelete(currentContent, newText) ==
  LET currentLength ==
        IF currentContent.form = "array" THEN Reduce(currentContent.ops, 0)
        ELSE 0
      normalizedText ==
        IF EndsWith(newText, <<NL, NL>>) THEN newText
        ELSE newText \o <<NL, NL>>
  IN [ops |-> <<DeleteOp(currentLength), InsertOp(normalizedText)>>]

createReplacementDelta(currentContent, newText) ==
  LET currentLength ==
        IF currentContent.form = "array" THEN Reduce(currentContent.ops, 0)
        ELSE 0
      normalizedText ==
        IF EndsWith(newText, <<NL, NL>>) THEN newText
        ELSE newText \o <<NL, NL>>
  IN [ops |-> (IF currentLength > 0 THEN <<DeleteOp(currentLength)>> ELSE <<>>)
                \o <<InsertOp(normalizedText)>>]

\* --------------------------------------------------- error values
Lit(s) == [k |-> "lit", lit |-> s]
Raw(b) == [k |-> "raw", body |-> b]

\* new SlabApiError(message, status, graphqlErrors)
SlabApiError(message, status) ==
  [tag |-> "SlabApiError", message |-> message, status |-> status,
   cause |-> "none"]
\* new SlabNetworkError(message, cause)
SlabNetworkError(message, cause) ==
  [tag |-> "SlabNetworkError", message |-> message, status |-> 0,
   cause |-> cause]
\* Effect.succeed(json.data)
Succeed(data) == [tag |-> "ok", value |-> data]
\* an exception thrown inside Effect.gen: the effect dies with a defect
\* that is neither of the two typed errors
Die(what) == [tag |-> "defect", what |-> what]
NoOutcome == [tag |-> "none"]

\* ------------------------------------------ one request/response exchange
\* Response.ok
ResponseOk(status) == status \in 200..299

Messages == {"Post not found", "Forbidden field"}
\* the errors field of a response object
ErrorsFields ==
  {[t |-> "absent"], [t |-> "null"], [t |-> "string"], [t |-> "number"]}
    \cup {[t |-> "array", items |-> l] :
            l \in UNION {[1..k ->
                           \* an entry: a record with a message, a record
                           \* without one, or null
                           {[t |-> "object", message |-> m] : m \in Messages}
                             \cup {[t |-> "object", message |-> "undefined"],
                                   [t |-> "null"]}] :
                         k \in 0..MaxErrors}}

AbsentData == [t |-> "absent"]
NullData == [t |-> "null"]
ObjectData(v) == [t |-> "object", v |-> v]

NullJson == [t |-> "null"]
ObjectJson(errors, data) == [t |-> "object", errors |-> errors, data |-> data]

\* a response body: not JSON at all, or the text of a JSON value
TextBody(s) == [syntax |-> "text", text |-> s]
JsonBody(j) == [syntax |-> "json", json |-> j]

\* the outcome of fetch and of reading the body
TransportFailure(cause) == [transport |-> "fail", cause |-> cause]
Response(status, readOk, body) ==
  [transport |-> "ok", status |-> status, readOk |-> readOk, body |-> body,
   cause |-> IF readOk THEN "SyntaxError" ELSE "body stream error"]

RECURSIVE JoinWith(_, _)
\* Array.prototype.join(sep): null and undefined entries become ""
JoinWith(parts, sep) ==
  IF parts = <<>> THEN <<>>
  ELSE IF Len(parts) = 1 THEN <<Lit(IF Head(parts) = "undefined" THEN ""
                                    ELSE Head(parts))>>
  ELSE <<Lit(IF Head(parts) = "undefined" THEN "" ELSE Head(parts)),
         Lit(sep)>> \o JoinWith(Tail(parts), sep)

\* lines 100-112: fetch rejected
FetchFailed(exchange) ==
  SlabNetworkError(<<Lit("Network error: "), Lit(exchange.cause)>>,
                   exchange.cause)

HttpError_NoBody(exchange) ==
  IF ~exchange.readOk
  THEN SlabNetworkError(<<Lit("Unable to read error response: "),
                          Lit(exchange.cause)>>, exchange.cause)
  ELSE SlabApiError(<<Lit("Slab GraphQL API error ("),
                      Lit(ToString(exchange.status)), Lit(")")>>,
                    exchange.status)

\* lines 115-123: the response is not ok
HttpError(exchange) ==
  IF ~exchange.readOk
  THEN SlabNetworkError(<<Lit("Unable to read error response: "),
                          Lit(exchange.cause)>>, exchange.cause)
  ELSE SlabApiError(<<Lit("Slab GraphQL API error ("),
                      Lit(ToString(exchange.status)), Lit("): "),
                      Raw(exchange.body)>>, exchange.status)

ParseFailed_AsApiError(exchange) ==
  SlabApiError(<<Lit("Failed to parse JSON response: "),
                 Lit(exchange.cause)>>, exchange.status)

\* lines 126-129: response.json() rejected
ParseFailed(exchange) ==
  SlabNetworkError(<<Lit("Failed to parse JSON response: "),
                     Lit(exchange.cause)>>, exchange.cause)

GraphQLErrors_FirstOnly(items, status) ==
  IF \E i \in 1..Len(items) : items[i].t = "null"
  THEN Die("TypeError: e is null")
  ELSE SlabApiError(<<Lit("GraphQL errors: "), Lit(items[1].message)>>, status)

\* lines 133-136: the errors list is not empty
GraphQLErrors(items, status) ==
  IF \E i \in 1..Len(items) : items[i].t = "null"
  THEN Die("TypeError: e is null")
  ELSE SlabApiError(
         <<Lit("GraphQL errors: ")>>
           \o JoinWith([i \in 1..Len(items) |-> items[i].message], ", "),
         status)

CheckData_OnlyUndefined(data, status) ==
  IF data.t # "absent" THEN Succeed(IF data.t = "object" THEN data.v ELSE data)
  ELSE SlabApiError(<<Lit("GraphQL response missing data field")>>, status)

\* lines 140-144: the data field
CheckData(data, status) ==
  IF data.t = "object" THEN Succeed(data.v)
  ELSE SlabApiError(<<Lit("GraphQL response missing data field")>>, status)

\* lines 131-144: the checks made on the parsed JSON value
CheckJson(json, status) ==
  IF json.t = "null" THEN Die("TypeError: json is null")
  ELSE
    LET errors == IF json.t = "object" THEN json.errors ELSE [t |-> "absent"]
        data == IF json.t = "object" THEN json.data ELSE AbsentData
    IN CASE errors.t = "string" ->
              Die("TypeError: json.errors.map is not a function")
         [] errors.t = "array" /\ Len(errors.items) > 0 ->
              GraphQLErrors(errors.items, status)
         [] OTHER -> CheckData(data, status)

makeGraphQLRequest(exchange) ==
  IF exchange.transport = "fail" THEN FetchFailed(exchange)
  ELSE IF ~ResponseOk(exchange.status) THEN HttpError(exchange)
  ELSE IF ~exchange.readOk \/ exchange.body.syntax # "json"
  THEN ParseFailed(exchange)
  ELSE CheckJson(exchange.body.json, exchange.status)

\* ------------------------------------------------------ transformPost
Undefined == [t |-> "undefined"]
Null == [t |-> "null"]
Str(s) == [t |-> "string", v |-> s]
Owner(id, name, email) ==
  [t |-> "object", id |-> id, name |-> name, email |-> email]

transformPost_LegacyAuthor(post) ==
  LET author == IF post.owner.t = "object" THEN post.owner
                ELSE IF post.createdBy.t = "object" THEN post.createdBy
                ELSE post.created_by
  IN [id |-> post.id,
      title |-> post.title,
      content |-> IF post.content.form = "string" THEN post.content.str
                  ELSE deltaToPlainText(post.content),
      url |-> IF post.url.t = "string" /\ post.url.v # "" THEN post.url.v
              ELSE "https://slab.com/posts/" \o post.id,
      created_at |-> post.insertedAt,
      updated_at |-> post.updatedAt,
      created_by |-> IF author.t = "object"
                     THEN [t |-> "object", id |-> author.id,
                           display_name |-> author.name,
                           email |-> author.email]
                     ELSE Undefined]

transformPost_AlwaysFlatten(post) ==
  [id |-> post.id,
   title |-> post.title,
   content |-> deltaToPlainText(post.content),
   url |-> IF post.url.t = "string" /\ post.url.v # "" THEN post.url.v
           ELSE "https://slab.com/posts/" \o post.id,
   created_at |-> post.insertedAt,
   updated_at |-> post.updatedAt,
   created_by |-> IF post.owner.t = "object"
                  THEN [t |-> "object", id |-> post.owner.id,
                        display_name |-> post.owner.name,
                        email |-> post.owner.email]
                  ELSE Undefined]

transformPost(post) ==
  [id |-> post.id,
   title |-> post.title,
   content |-> IF post.content.form = "string" THEN post.content.str
               ELSE deltaToPlainText(post.content),
   url |-> IF post.url.t = "string" /\ post.url.v # "" THEN post.url.v
           ELSE "https://slab.com/posts/" \o post.id,
   created_at |-> post.insertedAt,
   updated_at |-> post.updatedAt,
   created_by |-> IF post.owner.t = "object"
                  THEN [t |-> "object", id |-> post.owner.id,
                        display_name |-> post.owner.name,
                        email |-> post.owner.email]
                  ELSE Undefined]

\* ------------------------------------------------- the backing service
PostIds == {"p1", "p2"}
\* the one post the service holds
StoredId == "p1"

GetPostQuery == "GetPost"
UpdatePostContentMutation == "UpdatePostContent"

\* the record the service returns for  post(id) { id title content
\* insertedAt updatedAt owner {...} }
PostRecord(content) ==
  [t |-> "object", id |-> StoredId, title |-> "T", content |-> content,
   url |-> Undefined, insertedAt |-> "t1", updatedAt |-> "t2",
   owner |-> Owner("u1", "A", "a@x")]
\* the record the service returns for  updatePostContent { id title content
\* updatedAt version }
UpdatedRecord(content) ==
  [t |-> "object", id |-> StoredId, title |-> "T", content |-> content,
   url |-> Undefined, insertedAt |-> "undefined", updatedAt |-> "t3",
   owner |-> Undefined]

RECURSIVE Units(_)
\* the positional units of a document: one per character, one per embed
Units(ops) ==
  IF ops = <<>> THEN <<>>
  ELSE (IF Head(ops).kind = "text" THEN Head(ops).insert ELSE <<EMBED>>)
         \o Units(Tail(ops))

ContentUnits(content) ==
  CASE content.form = "array" -> Units(content.ops)
    [] content.form = "string" -> content.str
    [] OTHER -> <<>>

RECURSIVE Regroup(_)
\* a document's operations from its units: adjacent characters form one run
Regroup(units) ==
  IF units = <<>> THEN <<>>
  ELSE IF Head(units) = EMBED THEN <<EmbedOp>> \o Regroup(Tail(units))
  ELSE LET rest == Regroup(Tail(units))
       IN IF rest # <<>> /\ rest[1].kind = "text"
          THEN <<TextOp(<<Head(units)>> \o rest[1].insert)>> \o Tail(rest)
          ELSE <<TextOp(<<Head(units)>>)>> \o rest

Drop(units, n) ==
  IF n >= Len(units) THEN <<>> ELSE SubSeq(units, n + 1, Len(units))

RECURSIVE ApplyOps(_, _)
\* Quill's application of an edit to a document, from its start: a delete
\* removes the next n units, an insert puts its text at the position
ApplyOps(units, ops) ==
  IF ops = <<>> THEN units
  ELSE IF Head(ops).op = "delete"
  THEN ApplyOps(Drop(units, Head(ops).n), Tail(ops))
  ELSE Head(ops).text \o ApplyOps(units, Tail(ops))

\* the stored content after the service has applied the edit
ApplyDelta(content, delta) ==
  LET units == ApplyOps(ContentUnits(content), delta.ops)
  IN IF content.form = "string" THEN StringContent(units)
     ELSE ArrayContent(Regroup(units))

\* ---------------------------------------------------------------- state
VARIABLES
  store,      \* the service: content of the post StoredId
  pc,         \* where the running client operation is suspended
  op,         \* the running client operation and its arguments
  requests,   \* the requests the running operation has sent, in order
  exchange,   \* the last request/response exchange
  outcome,    \* what makeGraphQLRequest made of that exchange
  lastRead,   \* the content the read of updatePost returned
  edit,       \* the service's record of the write it applied
  result,     \* the result of the operation, once it has ended
  calls,      \* client operations started so far
  invocation, \* the tool call the handler is serving
  response,   \* what the handler returned for it
  arg,        \* the argument of a function applied on its own
  ret,        \* what that function returned
  process     \* the server process: its environment, startup and loads

vars ==
  <<store, pc, op, requests, exchange, outcome, lastRead, edit, result, calls,
    invocation, response, arg, ret, process>>

\* the state outside the client
outside == <<invocation, response, arg, ret, process>>

NoInvocation == [name |-> "none"]
NoResponse == [kind |-> "none"]
NoArg == [t |-> "none"]
NoRet == [tag |-> "none"]

NoOp == [name |-> "none"]
NoExchange == [transport |-> "none"]
NoRead == [form |-> "none"]
NoEdit == [applied |-> FALSE]

\* no operation is running and nothing has been called
InitIdle ==
  /\ pc = "idle"
  /\ op = NoOp
  /\ requests = <<>>
  /\ exchange = NoExchange
  /\ outcome = NoOutcome
  /\ lastRead = NoRead
  /\ edit = NoEdit
  /\ result = NoOutcome
  /\ calls = 0
  /\ invocation = NoInvocation
  /\ response = NoResponse
  /\ arg = NoArg
  /\ ret = NoRet

InitClient ==
  /\ InitIdle
  /\ process = [phase |-> "none"]

Init ==
  /\ store \in Contents
  /\ InitClient

\* ------------------------------------------------ behaviour of the service
\* exchanges in which the service does not deliver a usable answer
FailedExchanges ==
  {TransportFailure("ECONNREFUSED"),
   Response(403, TRUE, TextBody("Forbidden")),
   Response(500, FALSE, TextBody("")),
   Response(200, TRUE, TextBody("<html>")),
   Response(200, TRUE, JsonBody(NullJson)),
   Response(200, TRUE, JsonBody(ObjectJson(
     [t |-> "array", items |-> <<[t |-> "object", message |-> "Post not found"]>>],
     AbsentData))),
   Response(200, TRUE, JsonBody(ObjectJson([t |-> "absent"], NullData)))}

Answer(data) ==
  Response(200, TRUE, JsonBody(ObjectJson([t |-> "absent"], ObjectData(data))))

\* the answer to  post(id: $id)
PostAnswer(id) ==
  Answer([post |-> IF id = StoredId THEN PostRecord(store) ELSE Null])

\* ------------------------------------------------------ client operations
GetPostRequest(postId) ==
  [query |-> GetPostQuery, variables |-> [id |-> postId]]

UpdateRequest_EmptyCurrent(postId, currentData, content) ==
  [query |-> UpdatePostContentMutation,
   variables |-> [id |-> postId,
                  delta |-> createReplacementDelta(ArrayContent(<<>>),
                                                   content)]]

\* lines 240-246: the write updatePost sends after its read
UpdateRequest(postId, currentData, content) ==
  [query |-> UpdatePostContentMutation,
   variables |-> [id |-> postId,
                  delta |-> createReplacementDelta(currentData.post.content,
                                                   content)]]

\* getPost(postId): sends its one request
GetPostCall ==
  /\ UNCHANGED outside
  /\ pc = "idle"
  /\ calls < MaxCalls
  /\ \E postId \in PostIds :
       /\ op' = [name |-> "getPost", postId |-> postId]
       /\ requests' = <<GetPostRequest(postId)>>
  /\ pc' = "get"
  /\ calls' = calls + 1
  /\ UNCHANGED <<store, exchange, outcome, lastRead, edit, result>>

\* getPost resumes with the outcome of its request
GetPostResume ==
  /\ UNCHANGED outside
  /\ pc = "get"
  /\ \E e \in FailedExchanges \cup {PostAnswer(op.postId)} :
       LET data == makeGraphQLRequest(e)
       IN /\ exchange' = e
          /\ outcome' = data
          /\ result' = IF data.tag # "ok" THEN data
                       ELSE IF data.value.post.t # "object"
                       THEN Die("TypeError: post is null")
                       ELSE Succeed(transformPost(data.value.post))
  /\ pc' = "done"
  /\ UNCHANGED <<store, op, requests, lastRead, edit, calls>>

\* updatePost(postId, content): sends the read
UpdatePostCall ==
  /\ UNCHANGED outside
  /\ pc = "idle"
  /\ calls < MaxCalls
  /\ \E postId \in PostIds, content \in Texts :
       /\ op' = [name |-> "updatePost", postId |-> postId, content |-> content]
       /\ requests' = <<GetPostRequest(postId)>>
  /\ pc' = "read"
  /\ calls' = calls + 1
  /\ UNCHANGED <<store, exchange, outcome, lastRead, edit, result>>

\* updatePost resumes with the outcome of the read and sends the write
UpdatePostRead ==
  /\ UNCHANGED outside
  /\ pc = "read"
  /\ \E e \in FailedExchanges \cup {PostAnswer(op.postId)} :
       LET currentData == makeGraphQLRequest(e)
       IN /\ exchange' = e
          /\ outcome' = currentData
          /\ IF currentData.tag # "ok"
             THEN /\ result' = currentData
                  /\ pc' = "done"
                  /\ UNCHANGED <<requests, lastRead>>
             ELSE IF currentData.value.post.t # "object"
             THEN /\ result' = Die("TypeError: post is null")
                  /\ pc' = "done"
                  /\ UNCHANGED <<requests, lastRead>>
             ELSE /\ lastRead' = currentData.value.post.content
                  /\ requests' = Append(requests,
                       UpdateRequest(op.postId, currentData.value, op.content))
                  /\ pc' = "write"
                  /\ UNCHANGED result
  /\ UNCHANGED <<store, op, edit, calls>>

\* the service receives the write, applies it (or not), and updatePost
\* resumes with the outcome
UpdatePostWrite ==
  /\ UNCHANGED outside
  /\ pc = "write"
  /\ LET request == requests[Len(requests)]
         written == ApplyDelta(store, request.variables.delta)
         applies == [applied |-> TRUE, before |-> store, after |-> written]
     IN \/ \* applied and answered
           /\ request.variables.id = StoredId
           /\ store' = written
           /\ edit' = applies
           /\ exchange' = Answer([updatePostContent |-> UpdatedRecord(written)])
        \/ \* applied, but the answer is lost
           /\ request.variables.id = StoredId
           /\ store' = written
           /\ edit' = applies
           /\ exchange' = TransportFailure("ETIMEDOUT")
        \/ \* not applied
           /\ exchange' \in FailedExchanges
           /\ UNCHANGED <<store, edit>>
  /\ outcome' = makeGraphQLRequest(exchange')
  /\ result' = IF outcome'.tag # "ok" THEN outcome'
               ELSE Succeed(transformPost(outcome'.value.updatePostContent))
  /\ pc' = "done"
  /\ UNCHANGED <<op, requests, lastRead, calls>>

\* ------------------------------------------------ searchPosts, listPosts
SearchPostsQuery == "SearchPosts"
GetTopicPostsQuery == "GetTopicPosts"
GetOrganizationPostsQuery == "GetOrganizationPosts"
\* variables: { query, first: 20 }
SearchFirst == 20

UndefinedContent == [form |-> "undefined", ops |-> <<>>, str |-> <<>>]
OtherId == "p3"
\* a record of  topic { posts { id title content insertedAt owner } }
TopicRecord(id, content) ==
  [t |-> "object", id |-> id, title |-> "T", content |-> content,
   url |-> Undefined, insertedAt |-> "t1", updatedAt |-> "undefined",
   owner |-> Owner("u1", "A", "a@x")]
\* a record of  organization { posts { id title insertedAt } }: no content,
\* no owner
OrganizationRecord(id) ==
  [t |-> "object", id |-> id, title |-> "T", content |-> UndefinedContent,
   url |-> Undefined, insertedAt |-> "t1", updatedAt |-> "undefined",
   owner |-> Undefined]

Array(items) == [t |-> "array", items |-> items]
SeqsUpTo(S, n) == UNION {[1..k -> S] : k \in 0..n}

\* an edge of a search answer: with a post, with a node that has no post,
\* or null
Edge(post) == [t |-> "object", node |-> [t |-> "object", post |-> post]]
Edges ==
  {Edge(TopicRecord(StoredId, store)), Edge(TopicRecord(OtherId, NullContent)),
   Edge(Undefined), Null}
\* what the service answers for  search(query, types, first)
SearchAnswers ==
  {Answer([search |-> Null]),
   Answer([search |-> [t |-> "object", edges |-> Undefined]])}
    \cup {Answer([search |-> [t |-> "object", edges |-> Array(es)]]) :
            es \in SeqsUpTo(Edges, MaxEdges)}

\* what the service answers for  topic(id) { posts }
TopicAnswers ==
  {Answer([topic |-> Null]),
   Answer([topic |-> [t |-> "object", posts |-> Undefined]])}
    \cup {Answer([topic |-> [t |-> "object", posts |-> Array(ps)]]) :
            ps \in SeqsUpTo({TopicRecord(StoredId, store),
                             TopicRecord(OtherId, NullContent), Null},
                            MaxEdges)}
\* what the service answers for  organization { posts }
OrganizationAnswers ==
  {Answer([organization |-> Null]),
   Answer([organization |-> [t |-> "object", posts |-> Undefined]])}
    \cup {Answer([organization |-> [t |-> "object", posts |-> Array(ps)]]) :
            ps \in SeqsUpTo({OrganizationRecord(StoredId),
                             OrganizationRecord(OtherId), Null}, MaxEdges)}

\* an array without the entries filter(Boolean) drops
Truthy(x) == x # Null
Compact(items) == SelectSeq(items, Truthy)

PostList(posts) == Succeed([posts |-> posts, total_count |-> Len(posts)])

\* lines 258-270: the posts of the edges of a search answer
SearchResult(data) ==
  IF data.search.t # "object" THEN Die("TypeError: data.search is null")
  ELSE IF data.search.edges.t # "array" THEN PostList(<<>>)
  ELSE LET edges == data.search.edges.items
       IN IF \E i \in 1..Len(edges) : edges[i].t # "object"
          THEN Die("TypeError: edge is null")
          ELSE PostList(Compact(
                 [i \in 1..Len(edges) |->
                    IF edges[i].node.t = "object"
                         /\ edges[i].node.post.t = "object"
                    THEN transformPost(edges[i].node.post)
                    ELSE Null]))

ListResult_Reversed(container) ==
  IF container.t # "object" THEN Die("TypeError: container is null")
  ELSE IF container.posts.t # "array" THEN PostList(<<>>)
  ELSE LET posts == container.posts.items
       IN IF \E i \in 1..Len(posts) : posts[i].t # "object"
          THEN Die("TypeError: post is null")
          ELSE PostList([i \in 1..Len(posts) |->
                           transformPost(posts[Len(posts) + 1 - i])])

\* lines 282-286 and 294-298: the posts of a topic or of the organization
ListResult(container) ==
  IF container.t # "object" THEN Die("TypeError: container is null")
  ELSE IF container.posts.t # "array" THEN PostList(<<>>)
  ELSE LET posts == container.posts.items
       IN IF \E i \in 1..Len(posts) : posts[i].t # "object"
          THEN Die("TypeError: post is null")
          ELSE PostList([i \in 1..Len(posts) |-> transformPost(posts[i])])

\* the topicId argument: absent, empty, or an identifier
TopicArgs == {"undefined", "", "t1"}

ListPostsRequests_AlwaysOrganization(topicId) ==
  <<[query |-> GetOrganizationPostsQuery, variables |-> <<>>]>>

ListPostsRequests_Both(topicId) ==
  IF topicId \notin {"undefined", ""}
  THEN <<[query |-> GetTopicPostsQuery, variables |-> [topicId |-> topicId]],
         [query |-> GetOrganizationPostsQuery, variables |-> <<>>]>>
  ELSE <<[query |-> GetOrganizationPostsQuery, variables |-> <<>>]>>

\* the requests listPosts sends: the topic query when topicId is truthy,
\* else the organization query
ListPostsRequests(topicId) ==
  IF topicId \notin {"undefined", ""}
  THEN <<[query |-> GetTopicPostsQuery, variables |-> [topicId |-> topicId]]>>
  ELSE <<[query |-> GetOrganizationPostsQuery, variables |-> <<>>]>>

\* searchPosts(query): sends its one request
SearchPostsCall ==
  /\ UNCHANGED outside
  /\ pc = "idle"
  /\ calls < MaxCalls
  /\ \E query \in {"q"} :
       /\ op' = [name |-> "searchPosts", query |-> query]
       /\ requests' = <<[query |-> SearchPostsQuery,
                         variables |-> [query |-> query, first |-> SearchFirst]]>>
  /\ pc' = "search"
  /\ calls' = calls + 1
  /\ UNCHANGED <<store, exchange, outcome, lastRead, edit, result>>

\* searchPosts resumes with the outcome of its request
SearchPostsResume ==
  /\ UNCHANGED outside
  /\ pc = "search"
  /\ \E e \in FailedExchanges \cup SearchAnswers :
       LET data == makeGraphQLRequest(e)
       IN /\ exchange' = e
          /\ outcome' = data
          /\ result' = IF data.tag # "ok" THEN data
                       ELSE SearchResult(data.value)
  /\ pc' = "done"
  /\ UNCHANGED <<store, op, requests, lastRead, edit, calls>>

\* listPosts(topicId): sends the topic query or the organization query
ListPostsCall ==
  /\ UNCHANGED outside
  /\ pc = "idle"
  /\ calls < MaxCalls
  /\ \E topicId \in TopicArgs :
       /\ op' = [name |-> "listPosts", topicId |-> topicId]
       /\ requests' = ListPostsRequests(topicId)
  /\ pc' = "list"
  /\ calls' = calls + 1
  /\ UNCHANGED <<store, exchange, outcome, lastRead, edit, result>>

\* listPosts resumes with the outcome of its request
ListPostsResume ==
  /\ UNCHANGED outside
  /\ pc = "list"
  /\ \E e \in FailedExchanges \cup
               (IF requests[1].query = GetTopicPostsQuery THEN TopicAnswers
                ELSE OrganizationAnswers) :
       LET data == makeGraphQLRequest(e)
       IN /\ exchange' = e
          /\ outcome' = data
          /\ result' = IF data.tag # "ok" THEN data
                       ELSE IF requests[1].query = GetTopicPostsQuery
                       THEN ListResult(data.value.topic)
                       ELSE ListResult(data.value.organization)
  /\ pc' = "done"
  /\ UNCHANGED <<store, op, requests, lastRead, edit, calls>>

\* another writer replaces the content of the post
ExternalWrite ==
  /\ UNCHANGED outside
  /\ pc \in {"read", "write"}
  /\ \E s \in Runs : store' = ArrayContent(<<TextOp(s \o <<NL, NL>>)>>)
  /\ store' # store
  /\ UNCHANGED <<pc, op, requests, exchange, outcome, lastRead, edit, result,
                 calls>>

\* the caller takes the result; the client is ready for the next call
Return ==
  /\ UNCHANGED outside
  /\ pc = "done"
  /\ pc' = "idle"
  /\ op' = NoOp
  /\ requests' = <<>>
  /\ exchange' = NoExchange
  /\ outcome' = NoOutcome
  /\ lastRead' = NoRead
  /\ edit' = NoEdit
  /\ result' = NoOutcome
  /\ UNCHANGED <<store, calls>>

Next ==
  \/ GetPostCall
  \/ GetPostResume
  \/ UpdatePostCall
  \/ UpdatePostRead
  \/ UpdatePostWrite
  \/ SearchPostsCall
  \/ SearchPostsResume
  \/ ListPostsCall
  \/ ListPostsResume
  \/ ExternalWrite
  \/ Return

Spec == Init /\ [][Next]_vars

\* ------------------------------------- the query executor on its own
Bodies ==
  {TextBody("Forbidden"), TextBody(""), JsonBody(NullJson),
   JsonBody([t |-> "scalar"])}
    \cup {JsonBody(ObjectJson(e, d)) :
            e \in ErrorsFields,
            d \in {AbsentData, NullData, [t |-> "falsy"]}
                   \cup {ObjectData(v) :
                           v \in {[post |-> Null],
                                  [post |-> PostRecord(NullContent)]}}}
\* every outcome one exchange can have
AllExchanges ==
  {TransportFailure(c) : c \in {"ECONNREFUSED", "ETIMEDOUT"}}
    \cup {Response(s, r, b) :
            s \in {200, 201, 403, 500}, r \in BOOLEAN, b \in Bodies}

InitRequest ==
  /\ store = NullContent
  /\ InitClient

\* makeGraphQLRequest makes its exchange and classifies the outcome
RequestStep ==
  /\ UNCHANGED outside
  /\ pc = "idle"
  /\ exchange = NoExchange
  /\ \E e \in AllExchanges :
       /\ exchange' = e
       /\ outcome' = makeGraphQLRequest(e)
  /\ requests' = <<GetPostRequest(StoredId)>>
  /\ UNCHANGED <<store, pc, op, lastRead, edit, result, calls>>

NextRequest == RequestStep

SpecRequest == InitRequest /\ [][NextRequest]_vars

\* -------------------------------------------------------- extractPostId
\* An identifier argument is a string, written here as the sequence of the
\* pieces it is made of; ToText is the string itself.
RECURSIVE ToText(_)
ToText(tokens) ==
  IF tokens = <<>> THEN "" ELSE Head(tokens) \o ToText(Tail(tokens))

\* new InvalidPostIdError(message)
InvalidPostIdError(message) ==
  [tag |-> "InvalidPostIdError", message |-> message, status |-> 0,
   cause |-> "none"]

\* what a string can begin with: a URL with a lower-case scheme, a URL with
\* an upper-case scheme, nothing, or the letters http
UrlPrefixes ==
  {<<"http", "://", "h">>, <<"http", "s", "://", "h">>, <<"HTTPS", "://", "h">>}
IdInputs ==
  {prefix \o path \o suffix :
     prefix \in UrlPrefixes \cup {<<>>, <<"http">>},
     path \in SeqsUpTo({"/", "posts", StoredId}, MaxPathLen),
     suffix \in {<<>>, <<"?q">>, <<"#f">>, <<"?q", "#f">>}}

\* input.startsWith("http")
StartsWithHttp(tokens) == tokens # <<>> /\ Head(tokens) = "http"

\* the index of the first token of tokens that is in S, or Len(tokens) + 1
FirstIn(tokens, S) ==
  IF \E i \in 1..Len(tokens) : tokens[i] \in S
  THEN CHOOSE i \in 1..Len(tokens) :
         /\ tokens[i] \in S
         /\ \A j \in 1..(i - 1) : tokens[j] \notin S
  ELSE Len(tokens) + 1

\* where the text after the scheme of an http or https URL starts, or 0 when
\* the text has no such scheme
AfterScheme(tokens) ==
  IF Len(tokens) >= 2 /\ tokens[1] = "http" /\ tokens[2] = "://" THEN 3
  ELSE IF Len(tokens) >= 3 /\ tokens[1] = "http" /\ tokens[2] = "s"
            /\ tokens[3] = "://" THEN 4
  ELSE 0

\* new URL(input) for a text that begins with http: the pathname of the
\* URL, or a TypeError when the text is not a URL (no scheme separator, or
\* no host)
ParseURL(tokens) ==
  LET start == AfterScheme(tokens)
      rest == SubSeq(tokens, start, Len(tokens))
      hostEnd == FirstIn(rest, {"/", "?q", "#f"})
      tail == SubSeq(rest, hostEnd, Len(rest))
      pathEnd == FirstIn(tail, {"?q", "#f"})
      path == SubSeq(tail, 1, pathEnd - 1)
  IN IF start = 0 \/ hostEnd = 1 THEN [valid |-> FALSE, pathname |-> <<>>]
     ELSE [valid |-> TRUE,
           pathname |-> IF path = <<>> THEN <<"/">> ELSE path]

RECURSIVE Split(_)
\* pathname.split("/")
Split(tokens) ==
  IF tokens = <<>> THEN <<"">>
  ELSE LET rest == Split(Tail(tokens))
       IN IF Head(tokens) = "/" THEN <<"">> \o rest
          ELSE <<Head(tokens) \o Head(rest)>> \o Tail(rest)

extractPostId(input) ==
  IF input.t # "string" THEN Die("TypeError: input.startsWith")
  ELSE IF StartsWithHttp(input.v)
  THEN LET url == ParseURL(input.v)
           pathParts == Split(url.pathname)
           postId == pathParts[Len(pathParts)]
       IN IF ~url.valid
          THEN InvalidPostIdError(<<Lit("Invalid URL: "),
                                    Lit("TypeError: Invalid URL")>>)
          ELSE IF postId = ""
          THEN InvalidPostIdError(<<Lit("Could not extract post ID from URL")>>)
          ELSE Succeed(postId)
  ELSE Succeed(ToText(input.v))

\* ------------------------------------------- extractPostId on its own
InitExtract ==
  /\ store = NullContent
  /\ InitClient

\* extractPostId is applied to an identifier argument
ExtractStep ==
  /\ arg = NoArg
  /\ \E tokens \in IdInputs :
       /\ arg' = Str(tokens)
       /\ ret' = extractPostId(Str(tokens))
  /\ UNCHANGED <<store, pc, op, requests, exchange, outcome, lastRead, edit,
                 result, calls, invocation, response, process>>

NextExtract == ExtractStep

SpecExtract == InitExtract /\ [][NextExtract]_vars

\* ------------------------------------------------ the tool call handler
\* new ConfigError(message)
ConfigError(message) ==
  [tag |-> "ConfigError", message |-> message, status |-> 0, cause |-> "none"]

\* process.env: SLAB_API_TOKEN and SLAB_TEAM, "" when absent or empty
Envs == [token : {"", "tok"}, team : {"", "t"}]

loadConfig_TokenOnly(env) ==
  IF env.token = ""
  THEN ConfigError(<<Lit("SLAB_API_TOKEN environment variable is required")>>)
  ELSE Succeed([apiToken |-> env.token, team |-> env.team,
                baseUrl |-> "https://" \o env.team \o ".slab.com/api/v1"])

loadConfig(env) ==
  IF env.token = ""
  THEN ConfigError(<<Lit("SLAB_API_TOKEN environment variable is required")>>)
  ELSE IF env.team = ""
  THEN ConfigError(<<Lit("SLAB_TEAM environment variable is required")>>)
  ELSE Succeed([apiToken |-> env.token, team |-> env.team,
                baseUrl |-> "https://" \o env.team \o ".slab.com/api/v1"])

ToolNames ==
  {"slab__get_post", "slab__update_post", "slab__search", "slab__list_posts"}
UnknownTool == "slab__delete_post"

\* the postId argument: absent, an id, an unknown id, URLs, and an id that
\* begins with http
ToolPostIds ==
  {Undefined, Str(<<StoredId>>), Str(<<"posts">>),
   Str(<<"http", "s", "://", "h", "/", "posts", "/", StoredId>>),
   Str(<<"http", "s", "://", "h", "/", "posts", "/">>),
   Str(<<"http", StoredId>>)}
ToolArguments(postId, topicId) ==
  [t |-> "object", postId |-> postId, content |-> <<"a">>, query |-> "q",
   topicId |-> topicId]
\* request.params.arguments: absent, or an object
ToolArgs ==
  {Undefined}
    \cup {ToolArguments(postId, "undefined") : postId \in ToolPostIds}
    \cup {ToolArguments(Undefined, topicId) : topicId \in TopicArgs}

\* `Error: ${error.message || String(error)}`
ErrorText(error) ==
  <<Lit("Error: ")>>
    \o (IF error.message = <<>> THEN <<Lit("[object Object]")>>
        ELSE error.message)
\* the text a formatter makes of a value
Formatted(name, value) == [k |-> "formatted", tool |-> name, value |-> value]

\* { content: [{ type: "text", text }] }
TextResponse(text) == [kind |-> "returned", text |-> text, isError |-> FALSE]
\* { content: [{ type: "text", text }], isError: true }
ErrorResponse(text) == [kind |-> "returned", text |-> text, isError |-> TRUE]
\* Effect.runPromise rejects: the handler throws
Thrown(what) == [kind |-> "thrown", text |-> <<Lit(what)>>, isError |-> FALSE]

Respond(r) == [kind |-> "respond", response |-> r]
CallClient(o, request, at) ==
  [kind |-> "call", op |-> o, requests |-> <<request>>, pc |-> at]

WithPostId_RequestFirst(id, call) ==
  IF id.tag = "ok" THEN call
  ELSE CallClient([name |-> "getPost", postId |-> "unresolved"],
                  GetPostRequest("unresolved"), "get")

\* what the handler of a tool does with the outcome of extractPostId
WithPostId(id, call) ==
  IF id.tag = "defect" THEN Respond(Thrown(id.what))
  ELSE IF id.tag # "ok" THEN Respond(TextResponse(ErrorText(id)))
  ELSE call

\* toolHandlers[name](args) up to its first request
toolHandlers(name, args) ==
  LET id == extractPostId(args.postId)
  IN CASE name = "slab__get_post" ->
            WithPostId(id,
              CallClient([name |-> "getPost", postId |-> id.value],
                         GetPostRequest(id.value), "get"))
       [] name = "slab__update_post" ->
            WithPostId(id,
              CallClient([name |-> "updatePost", postId |-> id.value,
                          content |-> args.content],
                         GetPostRequest(id.value), "read"))
       [] name = "slab__search" ->
            CallClient([name |-> "searchPosts", query |-> args.query],
                       [query |-> SearchPostsQuery,
                        variables |-> [query |-> args.query,
                                       first |-> SearchFirst]],
                       "search")
       [] name = "slab__list_posts" ->
            CallClient([name |-> "listPosts", topicId |-> args.topicId],
                       ListPostsRequests(args.topicId)[1], "list")

\* the CallTool request handler up to its first request
HandleCall(name, args, env) ==
  IF args.t # "object"
  THEN Respond(ErrorResponse(<<Lit("Error: Missing required arguments")>>))
  ELSE IF name \notin ToolNames
  THEN Respond(ErrorResponse(<<Lit("Error: Unknown tool: "), Lit(name)>>))
  ELSE IF loadConfig(env).tag # "ok"
  THEN Respond(TextResponse(ErrorText(loadConfig(env))))
  ELSE toolHandlers(name, args)

\* the stored content when a tool is called
ToolStores == {NullContent, ArrayContent(<<TextOp(<<"a">>)>>)}

InitTool ==
  /\ store \in ToolStores
  /\ InitClient

\* a tool call arrives; it is answered at once or starts a client operation
CallTool ==
  /\ invocation = NoInvocation
  /\ pc = "idle"
  /\ \E name \in ToolNames \cup {UnknownTool}, args \in ToolArgs, env \in Envs :
       LET todo == HandleCall(name, args, env)
       IN /\ invocation' = [name |-> name, args |-> args, env |-> env]
          /\ IF todo.kind = "respond"
             THEN /\ response' = todo.response
                  /\ UNCHANGED <<pc, op, requests>>
             ELSE /\ op' = todo.op
                  /\ requests' = todo.requests
                  /\ pc' = todo.pc
                  /\ UNCHANGED response
  /\ UNCHANGED <<store, exchange, outcome, lastRead, edit, result, calls, arg,
                 ret, process>>

\* the client operation has ended: the handler returns its text, or throws
\* when the operation died
ToolReturn ==
  /\ invocation # NoInvocation
  /\ response = NoResponse
  /\ pc = "done"
  /\ response' =
       IF result.tag = "defect" THEN Thrown(result.what)
       ELSE IF result.tag # "ok" THEN TextResponse(ErrorText(result))
       ELSE TextResponse(<<Formatted(invocation.name, result.value)>>)
  /\ pc' = "idle"
  /\ UNCHANGED <<store, op, requests, exchange, outcome, lastRead, edit,
                 result, calls, invocation, arg, ret, process>>

NextTool ==
  \/ CallTool
  \/ GetPostResume
  \/ UpdatePostRead
  \/ UpdatePostWrite
  \/ SearchPostsResume
  \/ ListPostsResume
  \/ ToolReturn

SpecTool == InitTool /\ [][NextTool]_vars

\* ---------------------------------- deltaToPlainText on any value
\* What deltaToPlainText can be handed: any JSON value. An element of an
\* array is an operation record (a text insert with or without attributes,
\* an embed, an operation without insert), null, or a number.
Num == [t |-> "number"]
PlainObject == [t |-> "object", insert |-> Undefined, attributes |-> Undefined]
Insert(s, attributes) ==
  [t |-> "object", insert |-> Str(s), attributes |-> attributes]
Embed ==
  [t |-> "object", insert |-> [t |-> "object"], attributes |-> Undefined]
Bold == [t |-> "object", bold |-> TRUE]
Deltas ==
  {Undefined, Null, Str(<<"a">>), Str(<<>>), Num, PlainObject}
    \cup {Array(items) :
            items \in SeqsUpTo({Insert(s, a) :
                                  s \in Texts, a \in {Undefined, Bold}}
                                 \cup {Embed, PlainObject, Null, Num},
                               MaxOps)}

\* reading op.insert throws on null and undefined, and yields undefined on
\* a number
HasProperties(element) == element.t \notin {"null", "undefined"}

deltaToPlainTextOf_PlainOnly(delta) ==
  IF delta.t # "array" THEN Succeed(<<>>)
  ELSE IF \E i \in 1..Len(delta.items) : ~HasProperties(delta.items[i])
  THEN Die("TypeError: op is null")
  ELSE Succeed(JoinStrings(
         [i \in 1..Len(delta.items) |->
            IF delta.items[i].t = "object"
                 /\ delta.items[i].insert.t = "string"
                 /\ delta.items[i].attributes = Undefined
            THEN delta.items[i].insert.v
            ELSE <<>>]))

\* deltaToPlainText applied to any value: the text, or the TypeError it
\* throws
deltaToPlainTextOf(delta) ==
  IF delta.t # "array" THEN Succeed(<<>>)
  ELSE IF \E i \in 1..Len(delta.items) : ~HasProperties(delta.items[i])
  THEN Die("TypeError: op is null")
  ELSE Succeed(JoinStrings(
         [i \in 1..Len(delta.items) |->
            IF delta.items[i].t = "object"
                 /\ delta.items[i].insert.t = "string"
            THEN delta.items[i].insert.v
            ELSE <<>>]))

InitFlatten ==
  /\ store = NullContent
  /\ InitClient

\* deltaToPlainText is applied to a value
FlattenStep ==
  /\ arg = NoArg
  /\ \E delta \in Deltas :
       /\ arg' = delta
       /\ ret' = deltaToPlainTextOf(delta)
  /\ UNCHANGED <<store, pc, op, requests, exchange, outcome, lastRead, edit,
                 result, calls, invocation, response, process>>

NextFlatten == FlattenStep

SpecFlatten == InitFlatten /\ [][NextFlatten]_vars

\* --------------------------------------------- transformPost on its own
\* A raw record as the service, or an older schema, may deliver it: any of
\* content, url and owner may be missing or null, the author may come as
\* owner, createdBy or created_by, and its name as name, displayName or
\* display_name. A missing scalar reads "undefined".
Author(name, displayName, display_name, email) ==
  [t |-> "object", id |-> "u1", name |-> name, displayName |-> displayName,
   display_name |-> display_name, email |-> email]
LegacyAuthor == Author("undefined", "B", "undefined", "a@x")
\* an operation array with a null element
MalformedContent == [form |-> "array", ops |-> <<Null>>, str |-> <<>>]
RawPosts ==
  {[t |-> "object", id |-> StoredId, title |-> "T", content |-> c, url |-> u,
    insertedAt |-> "t1", updatedAt |-> "undefined", owner |-> o,
    createdBy |-> a, created_by |-> b] :
     c \in {UndefinedContent, NullContent, StringContent(<<"a">>),
            ArrayContent(<<TextOp(<<"a">>), EmbedOp>>), MalformedContent},
     u \in {Undefined, Null, [t |-> "string", v |-> ""],
            [t |-> "string", v |-> "https://t.slab.com/posts/p1"]},
     o \in {Undefined, Null}
            \cup {Author(n, d, h, e) :
                    n \in {"undefined", "A"}, d \in {"undefined", "B"},
                    h \in {"undefined", "C"}, e \in {"undefined", "a@x"}},
     a \in {Undefined, LegacyAuthor}, b \in {Undefined, LegacyAuthor}}

transformPostOf_OwnerRequired(post) ==
  IF post.t # "object" THEN Die("TypeError: post is null")
  ELSE IF post.content.form = "array"
            /\ \E i \in 1..Len(post.content.ops) : post.content.ops[i] = Null
  THEN Die("TypeError: op is null")
  ELSE IF post.owner.t # "object" THEN Die("TypeError: post.owner is null")
  ELSE Succeed(transformPost(post))

\* transformPost applied to a raw value: the Post, or the TypeError it throws
transformPostOf(post) ==
  IF post.t # "object" THEN Die("TypeError: post is null")
  ELSE IF post.content.form = "array"
            /\ \E i \in 1..Len(post.content.ops) : post.content.ops[i] = Null
  THEN Die("TypeError: op is null")
  ELSE Succeed(transformPost(post))

InitTransform ==
  /\ store = NullContent
  /\ InitClient

\* transformPost is applied to a raw record
TransformStep ==
  /\ arg = NoArg
  /\ \E post \in RawPosts \cup {Null} :
       /\ arg' = post
       /\ ret' = transformPostOf(post)
  /\ UNCHANGED <<store, pc, op, requests, exchange, outcome, lastRead, edit,
                 result, calls, invocation, response, process>>

NextTransform == TransformStep

SpecTransform == InitTransform /\ [][NextTransform]_vars

\* ----------------------------------------------------- the server process
\* record.field as JavaScript reads it: undefined when there is no such field
Property(record, field) ==
  IF field \in DOMAIN record THEN record[field] ELSE "undefined"

\* SlabClientServiceLive: const { graphqlUrl, apiToken } = config
SlabClientServiceLive(config) ==
  [graphqlUrl |-> Property(config, "graphqlUrl"),
   apiToken |-> Property(config, "apiToken")]

\* what one invocation of the handler holds while it runs
Context ==
  [pc |-> pc, op |-> op, requests |-> requests, exchange |-> exchange,
   outcome |-> outcome, lastRead |-> lastRead, edit |-> edit,
   result |-> result, invocation |-> invocation, response |-> response]
IdleContext ==
  [pc |-> "idle", op |-> NoOp, requests |-> <<>>, exchange |-> NoExchange,
   outcome |-> NoOutcome, lastRead |-> NoRead, edit |-> NoEdit,
   result |-> NoOutcome, invocation |-> NoInvocation, response |-> NoResponse]

\* the process when main starts, with its environment
InitServer ==
  /\ store \in ToolStores
  /\ InitIdle
  /\ \E env \in Envs :
       process = [phase |-> "starting", env |-> env, exitCode |-> 0,
                  loads |-> 0, parked |-> IdleContext]

\* main: loads the configuration, exits with status 1 when that fails, and
\* otherwise connects the server
main ==
  /\ process.phase = "starting"
  /\ process' =
       IF loadConfig(process.env).tag # "ok"
       THEN [process EXCEPT !.phase = "exited", !.exitCode = 1,
                            !.loads = @ + 1]
       ELSE [process EXCEPT !.phase = "connected", !.loads = @ + 1]
  /\ UNCHANGED <<store, pc, op, requests, exchange, outcome, lastRead, edit,
                 result, calls, invocation, response, arg, ret>>

\* a tool call arrives at the connected server: the handler provides
\* AppLayer, which loads the configuration and builds the client, and runs
\* up to its first request
ServerCallTool ==
  /\ process.phase = "connected"
  /\ invocation = NoInvocation
  /\ pc = "idle"
  /\ calls < MaxCalls
  /\ \E name \in ToolNames \cup {UnknownTool}, args \in ToolArgs :
       LET env == process.env
           todo == HandleCall(name, args, env)
           provided == args.t = "object" /\ name \in ToolNames
           config == loadConfig(env)
       IN /\ invocation' =
               [name |-> name, args |-> args, env |-> env,
                client |-> IF provided /\ config.tag = "ok"
                           THEN SlabClientServiceLive(config.value)
                           ELSE [graphqlUrl |-> "none", apiToken |-> "none"]]
          /\ process' = [process EXCEPT
                           !.loads = IF provided THEN @ + 1 ELSE @]
          /\ IF todo.kind = "respond"
             THEN /\ response' = todo.response
                  /\ UNCHANGED <<pc, op, requests>>
             ELSE /\ op' = todo.op
                  /\ requests' = todo.requests
                  /\ pc' = todo.pc
                  /\ UNCHANGED response
  /\ calls' = calls + 1
  /\ UNCHANGED <<store, exchange, outcome, lastRead, edit, result, arg, ret>>

\* the running operation of the invocation resumes with the outcome of its
\* request
ServerResume ==
  /\ process.phase = "connected"
  /\ \/ GetPostResume
     \/ UpdatePostRead
     \/ UpdatePostWrite
     \/ SearchPostsResume
     \/ ListPostsResume
  \* fetch(graphqlUrl, ...) rejects when graphqlUrl is not a URL
  /\ invocation.client.graphqlUrl = "undefined" =>
       exchange'.transport = "fail"

\* the response has been sent: the handler is done with the invocation
ServerDone ==
  /\ invocation # NoInvocation
  /\ response # NoResponse
  /\ pc' = "idle"
  /\ op' = NoOp
  /\ requests' = <<>>
  /\ exchange' = NoExchange
  /\ outcome' = NoOutcome
  /\ lastRead' = NoRead
  /\ edit' = NoEdit
  /\ result' = NoOutcome
  /\ invocation' = NoInvocation
  /\ response' = NoResponse
  /\ UNCHANGED <<store, calls, arg, ret, process>>

\* while an invocation awaits its request the event loop runs another one:
\* the handler is an async function and nothing queues the calls
Switch ==
  /\ process.phase = "connected"
  /\ pc # "done"
  /\ response = NoResponse
  /\ Context # process.parked
  /\ process' = [process EXCEPT !.parked = Context]
  /\ pc' = process.parked.pc
  /\ op' = process.parked.op
  /\ requests' = process.parked.requests
  /\ exchange' = process.parked.exchange
  /\ outcome' = process.parked.outcome
  /\ lastRead' = process.parked.lastRead
  /\ edit' = process.parked.edit
  /\ result' = process.parked.result
  /\ invocation' = process.parked.invocation
  /\ response' = process.parked.response
  /\ UNCHANGED <<store, calls, arg, ret>>

NextServer ==
  \/ main
  \/ ServerCallTool
  \/ ServerResume
  \/ ToolReturn
  \/ ServerDone
  \/ Switch

SpecServer == InitServer /\ [][NextServer]_vars

\* ------------------------------------------- two updates in succession
\* the content after one successful updatePost(StoredId, text) against a
\* service that applies the edit: the read returns the stored content, and
\* the write carries the edit updatePost makes from it
Updated(content, text) ==
  LET currentData == [post |-> PostRecord(content)]
      write == UpdateRequest(StoredId, currentData, text)
  IN ApplyDelta(content, write.variables.delta)

InitTwice ==
  /\ store \in Contents
  /\ InitClient

\* a first updatePost with some text succeeds
FirstUpdate ==
  /\ arg = NoArg
  /\ \E text \in Texts :
       /\ store' = Updated(store, text)
       /\ arg' = [t |-> "update", text |-> text, before |-> store,
                  after |-> Updated(store, text)]
  /\ UNCHANGED <<pc, op, requests, exchange, outcome, lastRead, edit, result,
                 calls, invocation, response, ret, process>>

\* a second updatePost with the same text succeeds
SecondUpdate ==
  /\ arg # NoArg
  /\ ret = NoRet
  /\ store' = Updated(store, arg.text)
  /\ ret' = [tag |-> "update", before |-> store,
             after |-> Updated(store, arg.text)]
  /\ UNCHANGED <<pc, op, requests, exchange, outcome, lastRead, edit, result,
                 calls, invocation, response, arg, process>>

NextTwice ==
  \/ FirstUpdate
  \/ SecondUpdate

SpecTwice == InitTwice /\ [][NextTwice]_vars

\* =============================================================== claims
IsPrefix(s, t) == Len(s) <= Len(t) /\ SubSeq(t, 1, Len(s)) = s

\* text is newText completed with at most two newlines so that it ends
\* with two
EndsWithBlankLine(newText, text) ==
  /\ IsPrefix(newText, text)
  /\ Len(text) <= Len(newText) + 2
  /\ \A i \in Len(newText) + 1..Len(text) : text[i] = NL
  /\ EndsWith(text, <<NL, NL>>)

\* newText with its trailing newlines completed to exactly two
CompletedToTwo(newText) ==
  IF EndsWith(newText, <<NL, NL>>) THEN newText
  ELSE IF EndsWith(newText, <<NL>>) THEN newText \o <<NL>>
  ELSE newText \o <<NL, NL>>

\* the writes among the requests of the running operation
Writes ==
  {i \in 1..Len(requests) : requests[i].query = UpdatePostContentMutation}

\* the content the service applied the edit to is the content the read
\* returned
EditOnReadContent == edit.applied /\ edit.before = lastRead

\* C1: when the stored content is an operation sequence and the service
\* applies the edit updatePost sent to the content its read returned, the
\* content afterwards, read back through deltaToPlainText, is the caller's
\* text completed to end with two newlines, and no unit of the previous
\* content is left.
C1_WholeContentReplaced ==
  (EditOnReadContent /\ lastRead.form = "array") =>
    /\ EndsWithBlankLine(op.content, deltaToPlainText(edit.after))
    /\ ContentUnits(edit.after) = deltaToPlainText(edit.after)

C1_Witness ==
  /\ EditOnReadContent
  /\ lastRead.form = "array"
  /\ Len(lastRead.ops) = 2
  /\ \E i \in 1..2 : lastRead.ops[i].kind = "embed"
  /\ \E i \in 1..2 : lastRead.ops[i].kind = "text" /\ lastRead.ops[i].insert # <<>>
  /\ result.tag = "ok"

\* C2: the insertion of the edit is newText with its trailing newlines
\* completed to exactly two: none gains two, exactly one gains one, two
\* are left unchanged.
C2_CompletedToExactlyTwo ==
  \A i \in Writes :
    LET ops == requests[i].variables.delta.ops
    IN ops[Len(ops)].text = CompletedToTwo(op.content)

\* C3: for a current operation sequence of n units (text length of a string
\* insert, 1 for any other operation) the edit has no deletion when n = 0
\* and otherwise exactly one deletion, of n, before the insertion; it has
\* exactly one insertion, which is its last operation.
C3_ReplacementShape ==
  \A i \in Writes :
    lastRead.form = "array" =>
      LET ops == requests[i].variables.delta.ops
          n == Len(Units(lastRead.ops))
      IN /\ ops # <<>>
         /\ ops[Len(ops)].op = "insert"
         /\ Cardinality({j \in 1..Len(ops) : ops[j].op = "insert"}) = 1
         /\ n = 0 => \A j \in 1..Len(ops) : ops[j].op # "delete"
         /\ n > 0 => Len(ops) = 2 /\ ops[1] = DeleteOp(n)

C3_Witness ==
  /\ Writes # {}
  /\ lastRead.form = "array"
  /\ \E j \in 1..Len(lastRead.ops) : lastRead.ops[j].kind = "embed"
  /\ Len(Units(lastRead.ops)) >= 2
  /\ Len(requests[2].variables.delta.ops) = 2

\* the plain text a reader gets for a stored content
PlainText(content) ==
  IF content.form = "string" THEN content.str ELSE deltaToPlainText(content)

\* C4: also when the content the read returned is a plain string (or another
\* non-array value) of non-zero length, the edit deletes all of it, so that
\* the resulting content is the caller's normalized text.
C4_NonArrayContentReplaced ==
  (EditOnReadContent /\ lastRead.form # "array"
     /\ Len(ContentUnits(lastRead)) > 0) =>
    EndsWithBlankLine(op.content, PlainText(edit.after))

Exchanged == exchange.transport # "none"

\* C5: every outcome of the exchange is classified: the result is a
\* SlabNetworkError, a SlabApiError or the data payload, never a defect.
C5_ClassificationTotal ==
  Exchanged => outcome.tag \in {"SlabNetworkError", "SlabApiError", "ok"}

Contains(message, part) == \E i \in 1..Len(message) : message[i] = part

\* C6: a response with a non-success status fails with a SlabApiError whose
\* status is that code and whose message contains the code and the raw body,
\* whatever the body is; only when the body cannot be read is it a
\* SlabNetworkError.
C6_HttpErrorClassified ==
  (Exchanged /\ exchange.transport = "ok" /\ exchange.status \notin 200..299) =>
    IF exchange.readOk
    THEN /\ outcome.tag = "SlabApiError"
         /\ outcome.status = exchange.status
         /\ Contains(outcome.message, Lit(ToString(exchange.status)))
         /\ Contains(outcome.message, Raw(exchange.body))
    ELSE outcome.tag = "SlabNetworkError"

C6_Witness ==
  /\ Exchanged
  /\ exchange.transport = "ok"
  /\ exchange.status = 403
  /\ exchange.readOk
  /\ exchange.body.syntax = "json"
  /\ exchange.body.json.t = "object"
  /\ exchange.body.json.errors.t = "array"
  /\ exchange.body.json.errors.items # <<>>
  /\ exchange.body.json.data.t = "object"
  /\ outcome.tag = "SlabApiError"

\* a success-status response whose body parsed to a JSON object
ParsedObject ==
  /\ Exchanged
  /\ exchange.transport = "ok"
  /\ exchange.status \in 200..299
  /\ exchange.readOk
  /\ exchange.body.syntax = "json"
  /\ exchange.body.json.t = "object"

\* the payload's data field is absent, null or an object
DataWellFormed == exchange.body.json.data.t \in {"absent", "null", "object"}

\* the payload carries a non-empty list of errors, each with a message
ReportsErrors ==
  /\ ParsedObject
  /\ DataWellFormed
  /\ exchange.body.json.errors.t = "array"
  /\ exchange.body.json.errors.items # <<>>
  /\ \A i \in 1..Len(exchange.body.json.errors.items) :
       /\ exchange.body.json.errors.items[i].t = "object"
       /\ exchange.body.json.errors.items[i].message \in Messages

\* C7: a well-formed payload with a non-empty errors list fails with a
\* SlabApiError whose message is the reported messages in order, joined by
\* ", ", and whose status is the response's status, with or without data.
C7_GraphQLErrorsJoined ==
  ReportsErrors =>
    LET items == exchange.body.json.errors.items
        n == Len(items)
    IN /\ outcome.tag = "SlabApiError"
       /\ outcome.status = exchange.status
       /\ Len(outcome.message) = 2 * n
       /\ \A i \in 1..n : outcome.message[2 * i] = Lit(items[i].message)
       /\ \A i \in 1..n - 1 : outcome.message[2 * i + 1] = Lit(", ")

C7_Witness ==
  /\ ReportsErrors
  /\ Len(exchange.body.json.errors.items) = 2
  /\ exchange.body.json.errors.items[1] # exchange.body.json.errors.items[2]
  /\ exchange.body.json.data.t = "object"
  /\ exchange.status = 201
  /\ outcome.tag = "SlabApiError"

\* the payload carries no errors: the list is absent, null or empty
ReportsNoErrors ==
  /\ ParsedObject
  /\ DataWellFormed
  /\ \/ exchange.body.json.errors.t \in {"absent", "null"}
     \/ /\ exchange.body.json.errors.t = "array"
        /\ exchange.body.json.errors.items = <<>>

\* C8: a well-formed payload without errors fails with the missing-data
\* SlabApiError when it has no data and otherwise succeeds with exactly its
\* data.
C8_DataOrMissing ==
  ReportsNoErrors =>
    IF exchange.body.json.data.t = "object"
    THEN outcome.tag = "ok" /\ outcome.value = exchange.body.json.data.v
    ELSE /\ outcome.tag = "SlabApiError"
         /\ outcome.message = <<Lit("GraphQL response missing data field")>>

C8_Witness ==
  /\ ReportsNoErrors
  /\ exchange.body.json.errors.t = "array"
  /\ exchange.body.json.data.t = "object"
  /\ outcome.tag = "ok"
  /\ outcome.value.post.t = "object"

\* the body of a success-status response could not be read or parsed
ParseFailure ==
  /\ exchange.transport = "ok"
  /\ exchange.status \in 200..299
  /\ ~exchange.readOk \/ exchange.body.syntax # "json"

\* C9: a transport failure and a failure to parse the body of a
\* success-status response give a SlabNetworkError carrying the cause, never
\* a SlabApiError; a SlabNetworkError comes only from a transport, body-read
\* or parse failure.
C9_NetworkErrorIffTransport ==
  Exchanged =>
    /\ (exchange.transport = "fail" \/ ParseFailure) =>
         /\ outcome.tag = "SlabNetworkError"
         /\ outcome.cause = exchange.cause
    /\ outcome.tag = "SlabNetworkError" =>
         \/ exchange.transport = "fail"
         \/ ~exchange.readOk
         \/ ParseFailure

C9_Witness ==
  /\ Exchanged
  /\ ParseFailure
  /\ exchange.readOk
  /\ outcome.tag = "SlabNetworkError"
  /\ outcome.cause = "SyntaxError"

\* C10: a successful updatePost has sent exactly two requests: the read of
\* the post by id, then the updatePostContent write with the same id and the
\* delta createReplacementDelta computes from the content that read returned
\* and the caller's text; a write is sent only after the read succeeded.
C10_ReadThenWrite ==
  /\ \A i \in Writes :
       /\ i = 2
       /\ op.name = "updatePost"
       /\ lastRead # NoRead
       /\ requests[1] = [query |-> GetPostQuery, variables |-> [id |-> op.postId]]
  /\ (op.name = "updatePost" /\ pc = "done" /\ result.tag = "ok") =>
       /\ Len(requests) = 2
       /\ requests[1] = [query |-> GetPostQuery, variables |-> [id |-> op.postId]]
       /\ requests[2] =
            [query |-> UpdatePostContentMutation,
             variables |-> [id |-> op.postId,
                            delta |-> createReplacementDelta(lastRead,
                                                             op.content)]]

C10_Witness ==
  /\ op.name = "updatePost"
  /\ pc = "done"
  /\ result.tag = "ok"
  /\ lastRead.form = "array"
  /\ Len(ContentUnits(lastRead)) > 0
  /\ Len(requests) = 2

\* the operation has ended in a failure of its last request
RequestFailed == Exchanged /\ outcome.tag # "ok"

\* C11 as the specification words it: no retry and no rollback, and a
\* failed write leaves the content as it was before the write
C11_PriorContentUnchanged ==
  /\ op.name \in {"getPost", "searchPosts", "listPosts"} => Len(requests) = 1
  /\ op.name = "updatePost" => Len(requests) \in 1..2
  /\ RequestFailed => (pc = "done" /\ result = outcome)
  /\ (op.name = "updatePost" /\ pc = "done" /\ lastRead = NoRead) => Writes = {}
  /\ (op.name = "updatePost" /\ Len(requests) = 2 /\ RequestFailed) =>
       (edit.applied => edit.after = edit.before)

\* C11: no retry and no rollback: getPost, searchPosts and listPosts send
\* exactly one request per call and updatePost at most two (one read, at most
\* one write, the write only after the read succeeded); once a request has
\* failed the operation has ended, has sent nothing after it, and its result
\* is exactly that request's failure. A failed write is never followed by a
\* compensating request, whether or not the service applied the edit.
C11_NoRetryNoRollback ==
  /\ op.name \in {"getPost", "searchPosts", "listPosts"} => Len(requests) = 1
  /\ op.name = "updatePost" =>
       /\ Len(requests) \in 1..2
       /\ Writes \subseteq {2}
       /\ requests[1].query = GetPostQuery
       /\ Writes # {} => lastRead # NoRead
  /\ RequestFailed => (pc = "done" /\ result = outcome)
  /\ (op.name = "updatePost" /\ pc = "done" /\ lastRead = NoRead) => Writes = {}

\* a write that failed at the caller although the service had applied it
C11_Witness ==
  /\ op.name = "updatePost"
  /\ pc = "done"
  /\ Len(requests) = 2
  /\ RequestFailed
  /\ result = outcome
  /\ edit.applied
  /\ edit.after # edit.before

Responded == invocation # NoInvocation /\ response # NoResponse

\* the invocation ended in a failure of the client operation
ClientFailed == result.tag \notin {"ok", "none"}

\* C12: whatever the invocation and whatever the lower layers and the
\* service do, the handler returns a text response and does not throw, and a
\* failure of the client appears in the text as "Error: " followed by the
\* failure's message.
C12_HandlerNeverRaises ==
  Responded =>
    /\ response.kind = "returned"
    /\ ClientFailed => response.text = <<Lit("Error: ")>> \o result.message

\* the text is a fully-qualified URL: scheme, "://", host, then the rest
IsUrl(tokens) == \E prefix \in UrlPrefixes : IsPrefix(prefix, tokens)

\* the text after the last "/" of the part of a URL before its query string
\* and fragment; empty when the URL has no path
FinalSegment(tokens) ==
  LET body == SubSeq(tokens, 1, FirstIn(tokens, {"?q", "#f"}) - 1)
      slashes == {i \in 1..Len(body) : body[i] = "/"}
  IN IF slashes = {} THEN ""
     ELSE LET last == CHOOSE i \in slashes : \A j \in slashes : j <= i
          IN ToText(SubSeq(body, last + 1, Len(body)))

Extracted == arg # NoArg /\ ret # NoRet

\* C13: for an argument that is a fully-qualified URL, extractPostId returns
\* the final segment of the URL's path, without query string and fragment,
\* when that segment is not empty, and fails with an InvalidPostIdError when
\* it is empty; it never returns an empty identifier for a URL.
C13_UrlFinalSegment ==
  (Extracted /\ IsUrl(arg.v)) =>
    IF FinalSegment(arg.v) # ""
    THEN ret = Succeed(FinalSegment(arg.v))
    ELSE ret.tag = "InvalidPostIdError"

\* C14: for an argument that is an identifier and not a fully-qualified URL,
\* extractPostId succeeds and returns the argument unchanged, also when the
\* identifier begins with the letters http.
C14_BareIdUnchanged ==
  (Extracted /\ ~IsUrl(arg.v) /\ arg.v # <<>>) =>
    ret = Succeed(ToText(arg.v))

Flattened == arg # NoArg /\ ret # NoRet

\* every element of the array is an operation record
ProperSequence(delta) ==
  /\ delta.t = "array"
  /\ \A i \in 1..Len(delta.items) : delta.items[i].t = "object"

\* C15: for every input that is absent or not a proper operation sequence
\* (undefined, null, a string, a number, a non-array object, an array with an
\* element that is not an operation record), deltaToPlainText returns the
\* empty string and does not fail.
C15_ImproperInputEmpty ==
  (Flattened /\ ~ProperSequence(arg)) => ret = Succeed(<<>>)

RECURSIVE Payloads(_)
\* the string payloads of the inserts of a sequence, in order
Payloads(items) ==
  IF items = <<>> THEN <<>>
  ELSE (IF Head(items).insert.t = "string" THEN Head(items).insert.v
        ELSE <<>>) \o Payloads(Tail(items))

\* C16: for every operation sequence deltaToPlainText returns the string
\* payloads of its inserts concatenated in order; attributes make no
\* difference, and an operation whose insert is not a string contributes
\* nothing.
C16_PayloadsInOrder ==
  (Flattened /\ ProperSequence(arg)) => ret = Succeed(Payloads(arg.items))

\* a sequence of a formatted insert and an embed
C16_Witness ==
  /\ Flattened
  /\ ProperSequence(arg)
  /\ Len(arg.items) = 2
  /\ arg.items[1] = Insert(<<"a", NL>>, Bold)
  /\ arg.items[2] = Embed
  /\ ret = Succeed(<<"a", NL>>)

Transformed == arg # NoArg /\ ret # NoRet /\ ret.tag = "ok"

\* the first of the values that is not "undefined"
FirstPresent(values) ==
  IF \E i \in 1..Len(values) : values[i] # "undefined"
  THEN values[CHOOSE i \in 1..Len(values) :
                /\ values[i] # "undefined"
                /\ \A j \in 1..(i - 1) : values[j] = "undefined"]
  ELSE "undefined"

\* the author object of a raw record: owner, else createdBy, else created_by
AuthorOf(post) ==
  IF post.owner.t = "object" THEN post.owner
  ELSE IF post.createdBy.t = "object" THEN post.createdBy
  ELSE post.created_by

PartialRecord(post) ==
  /\ post.t = "object"
  /\ post.content # MalformedContent

\* C18: transformPost does not fail on a partial record: whichever of
\* content, url, owner and the owner's fields are missing or null, it returns
\* a Post; created_by is absent when there is no owner, and the url is the
\* one made from the id when the record has none.
C18_PartialRecordTolerated ==
  (arg # NoArg /\ ret # NoRet /\ PartialRecord(arg)) =>
    /\ ret.tag = "ok"
    /\ arg.owner.t # "object" => ret.value.created_by = Undefined
    /\ (arg.url.t # "string" \/ arg.url.v = "") =>
         ret.value.url = "https://slab.com/posts/" \o arg.id
    /\ arg.content.form \in {"undefined", "null"} => ret.value.content = <<>>

\* a record without content, url and owner
C18_Witness ==
  /\ arg # NoArg
  /\ ret # NoRet
  /\ PartialRecord(arg)
  /\ arg.content = UndefinedContent
  /\ arg.url = Null
  /\ arg.owner = Null
  /\ ret.tag = "ok"
  /\ ret.value.url = "https://slab.com/posts/p1"

Finished == pc = "done" /\ result.tag = "ok"

HasPost(edge) ==
  edge.t = "object" /\ edge.node.t = "object" /\ edge.node.post.t = "object"
PostOf(edge) == edge.node.post

RECURSIVE PostsOf(_)
\* the posts the edges of a search answer carry, in order
PostsOf(edges) ==
  IF edges = <<>> THEN <<>>
  ELSE (IF HasPost(Head(edges)) THEN <<PostOf(Head(edges))>> ELSE <<>>)
         \o PostsOf(Tail(edges))

ItemsOf(array) == IF array.t = "array" THEN array.items ELSE <<>>

\* the raw records the answer of the finished operation carries
SourceRecords ==
  CASE op.name = "getPost" -> <<outcome.value.post>>
    [] op.name = "updatePost" -> <<outcome.value.updatePostContent>>
    [] op.name = "searchPosts" -> PostsOf(ItemsOf(outcome.value.search.edges))
    [] op.name = "listPosts" ->
         IF requests[1].query = GetTopicPostsQuery
         THEN ItemsOf(outcome.value.topic.posts)
         ELSE ItemsOf(outcome.value.organization.posts)

\* the Posts the finished operation returns
ResultPosts ==
  IF op.name \in {"getPost", "updatePost"} THEN <<result.value>>
  ELSE result.value.posts

IsPlainText(content) ==
  /\ DOMAIN content = 1..Len(content)
  /\ \A i \in 1..Len(content) : content[i] \in Char

\* C19: every Post that getPost, updatePost, searchPosts or listPosts returns
\* has plain text as content: the record's content itself when that is a
\* string, and otherwise its flattening, which is empty when the record has
\* no content.
C19_ContentIsPlainText ==
  Finished =>
    /\ Len(ResultPosts) = Len(SourceRecords)
    /\ \A i \in 1..Len(ResultPosts) :
         /\ IsPlainText(ResultPosts[i].content)
         /\ ResultPosts[i].content =
              IF SourceRecords[i].content.form = "string"
              THEN SourceRecords[i].content.str
              ELSE Payloads([j \in 1..Len(SourceRecords[i].content.ops) |->
                     IF SourceRecords[i].content.ops[j].kind = "text"
                     THEN Insert(SourceRecords[i].content.ops[j].insert,
                                 Undefined)
                     ELSE Embed])

\* a listing of two posts, one with a string as content and one without
\* content
C19_Witness ==
  /\ Finished
  /\ op.name = "listPosts"
  /\ Len(ResultPosts) = 2
  /\ SourceRecords[1].content.form = "string"
  /\ ResultPosts[1].content # <<>>
  /\ SourceRecords[2].content = NullContent
  /\ ResultPosts[2].content = <<>>

\* C20: the Post a successful updatePost returns has as content the caller's
\* text with its trailing newlines completed to exactly two.
C20_ReturnsNormalizedText ==
  (Finished /\ op.name = "updatePost") =>
    LET content == result.value.content
    IN /\ content = CompletedToTwo(op.content)
       /\ EndsWith(content, <<NL, NL>>)
       /\ ~EndsWith(content, <<NL, NL, NL>>)

\* C21: listPosts sends exactly one request, chosen by the topic identifier
\* alone: the topic query with the identifier as its variable when one is
\* supplied, and the organization query without variables when none is (an
\* empty identifier is none).
C21_ListQueryByTopic ==
  op.name = "listPosts" =>
    /\ Len(requests) = 1
    /\ requests[1] =
         IF op.topicId \in {"undefined", ""}
         THEN [query |-> GetOrganizationPostsQuery, variables |-> <<>>]
         ELSE [query |-> GetTopicPostsQuery,
               variables |-> [topicId |-> op.topicId]]

\* a finished listing of a topic
C21_Witness ==
  /\ op.name = "listPosts"
  /\ op.topicId = "t1"
  /\ pc = "done"
  /\ requests = <<[query |-> GetTopicPostsQuery,
                   variables |-> [topicId |-> "t1"]]>>

\* the collection a search or list answer carries: the edges, or the records
AnswerItems ==
  CASE op.name = "searchPosts" -> ItemsOf(outcome.value.search.edges)
    [] op.name = "listPosts" ->
         IF requests[1].query = GetTopicPostsQuery
         THEN ItemsOf(outcome.value.topic.posts)
         ELSE ItemsOf(outcome.value.organization.posts)

\* the request of a search or list succeeded and its answer is a collection
\* of edges or records
Listed ==
  /\ pc = "done"
  /\ op.name \in {"searchPosts", "listPosts"}
  /\ outcome.tag = "ok"
  /\ \A f \in DOMAIN outcome.value : outcome.value[f].t = "object"
  /\ \A i \in 1..Len(AnswerItems) : AnswerItems[i].t = "object"

\* C22: for every search and list answer the posts of the result are those
\* of the edges or records, in the same order; total_count is their number;
\* and a search edge without a post is left out, not counted, and does not
\* fail the call.
C22_OrderAndCount ==
  Listed =>
    /\ result.tag = "ok"
    /\ Len(result.value.posts) = Len(SourceRecords)
    /\ \A i \in 1..Len(SourceRecords) :
         result.value.posts[i].id = SourceRecords[i].id
    /\ result.value.total_count = Len(result.value.posts)
    /\ op.name = "searchPosts" =>
         result.value.total_count =
           Cardinality({i \in 1..Len(AnswerItems) : HasPost(AnswerItems[i])})

\* a search answer of an edge without post and an edge with one
C22_Witness ==
  /\ Listed
  /\ op.name = "searchPosts"
  /\ Len(AnswerItems) = 2
  /\ ~HasPost(AnswerItems[1])
  /\ HasPost(AnswerItems[2])
  /\ result.tag = "ok"
  /\ result.value.total_count = 1
  /\ result.value.posts[1].id = StoredId

\* the environment has a token and a team
ValidEnv(env) == env.token # "" /\ env.team # ""

Started == process.phase \in {"connected", "exited"}

\* C23: when the token or the team is absent or empty, loadConfig fails with
\* a ConfigError that names the missing variable, the token first; main then
\* exits with a non-zero status and never connects, so no tool call is ever
\* handled by a process whose configuration is not valid.
C23_FailFast ==
  /\ process.phase # "none" =>
       LET config == loadConfig(process.env)
       IN /\ config.tag = "ok" <=> ValidEnv(process.env)
          /\ process.env.token = "" =>
               config = ConfigError(<<Lit(
                 "SLAB_API_TOKEN environment variable is required")>>)
          /\ (process.env.token # "" /\ process.env.team = "") =>
               config = ConfigError(<<Lit(
                 "SLAB_TEAM environment variable is required")>>)
  /\ (Started /\ ~ValidEnv(process.env)) =>
       /\ process.phase = "exited"
       /\ process.exitCode # 0
  /\ process.phase = "connected" => ValidEnv(process.env)
  /\ (invocation # NoInvocation \/ calls > 0) =>
       (process.phase = "connected" /\ ValidEnv(process.env))

\* the process has exited at startup for want of both variables
C23_Witness ==
  /\ process.phase = "exited"
  /\ process.exitCode = 1
  /\ process.env.token = ""
  /\ process.env.team = ""
  /\ calls = 0

\* C24: the configuration is loaded once, when the process starts: serving
\* a tool call does not read the environment again, and no tool call ends in
\* a configuration error.
C24_LoadedOnce ==
  /\ process.phase # "none" => process.loads <= 1
  /\ invocation # NoInvocation => loadConfig(invocation.env).tag = "ok"

\* an invocation that is being served: accepted and not yet answered
InFlight(context) ==
  context.invocation # NoInvocation /\ context.response = NoResponse

\* C25: tool calls are serialized: a call is accepted only when the call
\* before it has run to completion, so at no time two invocations are being
\* served, and no request of one falls between the read and the write of
\* another.
C25_Serialized ==
  process.phase # "none" => ~(InFlight(Context) /\ InFlight(process.parked))

\* C29: in a process whose configuration loaded, every request goes to a
\* defined endpoint that loadConfig made from the team, and carries the
\* configured token.
C29_EndpointDefined ==
  (process.phase = "connected" /\ requests # <<>>) =>
    LET config == loadConfig(process.env).value
    IN /\ invocation.client.graphqlUrl # "undefined"
       /\ invocation.client.graphqlUrl \in {config[f] : f \in DOMAIN config}
       /\ invocation.client.apiToken = process.env.token

\* the invocation was answered without a client operation, or its client
\* operation failed
InvocationFailed ==
  \/ HandleCall(invocation.name, invocation.args, invocation.env).kind
       = "respond"
  \/ result.tag \notin {"ok", "none"}

\* C27: the response of an invocation carries the error flag exactly when
\* the invocation failed: missing arguments, unknown tool, invalid
\* identifier, or a network or API failure of the client.
C27_ErrorFlagConsistent ==
  (Responded /\ response.kind = "returned") =>
    (response.isError <=> InvocationFailed)

\* the invocation is rejected at the tool boundary: no arguments, unknown
\* tool, or an identifier of a get or update call that extractPostId does
\* not resolve
Rejected ==
  /\ invocation # NoInvocation
  /\ \/ invocation.args.t # "object"
     \/ invocation.name \notin ToolNames
     \/ /\ invocation.name \in {"slab__get_post", "slab__update_post"}
        /\ extractPostId(invocation.args.postId).tag # "ok"

\* C28: an invocation that is rejected at the tool boundary starts no client
\* operation and sends no request; it is answered at once, with an error
\* text when the arguments are missing, the tool is unknown or extractPostId
\* failed with an InvalidPostIdError.
C28_NoRequestWhenRejected ==
  Rejected =>
    /\ requests = <<>>
    /\ op = NoOp
    /\ exchange = NoExchange
    /\ response # NoResponse
    /\ (invocation.args.t # "object" \/ invocation.name \notin ToolNames) =>
         (response.kind = "returned" /\ response.isError)
    /\ (invocation.args.t = "object" /\ invocation.name \in ToolNames
          /\ loadConfig(invocation.env).tag = "ok"
          /\ extractPostId(invocation.args.postId).tag = "InvalidPostIdError")
         => response = TextResponse(
              ErrorText(extractPostId(invocation.args.postId)))

\* an update whose identifier is a URL with an empty final segment
C28_Witness ==
  /\ Rejected
  /\ invocation.name = "slab__update_post"
  /\ invocation.args.t = "object"
  /\ loadConfig(invocation.env).tag = "ok"
  /\ extractPostId(invocation.args.postId).tag = "InvalidPostIdError"
  /\ response.kind = "returned"
  /\ requests = <<>>

\* C26: when the post is changed by another writer (another update, or
\* anyone else) between the read and the write of an update, the deletion
\* the write carries is still the length of the content present when the
\* write is applied, so the content afterwards is exactly the text the write
\* inserts, with nothing of the other writer's text left.
C26_LaterWriteMeasuresPresent ==
  (edit.applied /\ edit.before.form = "array") =>
    LET ops == requests[Len(requests)].variables.delta.ops
        deletion == IF ops[1].op = "delete" THEN ops[1].n ELSE 0
    IN /\ deletion = Len(ContentUnits(edit.before))
       /\ PlainText(edit.after) = ops[Len(ops)].text

\* C30: two successive successful updates with the same text leave the post
\* with the content one update leaves: the second replaces the first's
\* insertion by the same insertion.
C30_SecondUpdateChangesNothing ==
  (arg # NoArg /\ ret # NoRet) => ret.after = arg.after

====
